---- MODULE Spec2Model ----
(***************************************************************************)
(* Rejection-curve evaluation of scripts/figures.py and                    *)
(* scripts/rejection.py.                                                   *)
(*                                                                         *)
(* Numbers.  The code computes in float64; the model computes exactly, in  *)
(* integers, by carrying a scale:                                          *)
(*   - an uncertainty value is an integer;                                 *)
(*   - a percentile argument p is given in tenths of a percent, that is    *)
(*     p10 = 10 * p (0.1 -> 1, 10 -> 100, 50 -> 500), and the value of     *)
(*     np.percentile is carried times PScale;                              *)
(*   - np.linspace(a, b, num) is carried times (num - 1);                  *)
(*   - a fraction c / float(n) is the pair <<c, n>>.                       *)
(* Arrays are sequences, so numpy index i is sequence index i + 1.         *)
(***************************************************************************)
EXTENDS Integers, Sequences, FiniteSets, TLC

VARIABLES
    pc,      \* "idle", "loop" (inside the engine's sweep), "done" or "error"
    op,      \* the function that was called
    arrays,  \* the caller's arrays
    call,    \* the other arguments of the call
    ret,     \* the value returned
    stdout,  \* what the call printed
    rng,     \* the state of numpy's global random generator
    loc,     \* the locals of a call in progress
    kept,    \* what the caller has kept of an earlier call
    base     \* the caller's arrays whose memory the returned value shares

vars == <<pc, op, arrays, call, ret, stdout, rng, loc, kept, base>>

----------------------------------------------------------------------------
(* Bounds of the model *)

MaxN == 3
MaxU == 2
MaxP == 2
MaxT == 2
RngMod == 6
MaxBootstrap == 3
MaxEngineN == 2
MaxRows == 2
MaxDraws == 3
DrawLevels == 8
MaxFloatN == 2

(* Program constants *)

K == 100

\* the resamples of the random baseline's interval
RandResamples == 100

\* alpha = 1.5, which puts the lower percentile above the upper one
AlphaAboveOne == 150 * 10

\* the percentile 50 in the place of rejection.py's 10
RejectionMinPercentileFifty == 50 * 10

\* alpha = 0.05 and rejection.py's percentile 10, in tenths of a percent
Alpha10 == 5 * 10
RejectionMinPercentile == 10 * 10

PScale == 10 * 100
GScale == PScale * (K - 1)

----------------------------------------------------------------------------
(* Sequences as arrays *)

Range(s) == {s[j] : j \in DOMAIN s}

\* the array <<f(lo), ..., f(hi)>>, built by halves
RECURSIVE ArrayFrom(_, _, _)
ArrayFrom(f(_), lo, hi) ==
    IF lo > hi THEN <<>>
    ELSE IF lo = hi THEN <<f(lo)>>
    ELSE LET mid == (lo + hi) \div 2
         IN  ArrayFrom(f, lo, mid) \o ArrayFrom(f, mid + 1, hi)

\* the array <<f(1), ..., f(n)>>
Array(f(_), n) == ArrayFrom(f, 1, n)

\* F(v), with v evaluated once
Bind(v, F(_)) == CHOOSE x \in {F(w) : w \in {v}} : TRUE

\* numpy's a.sum() of a boolean array: the number of True entries
CountTrue(mask) == Cardinality({j \in DOMAIN mask : mask[j]})

\* numpy's a[mask] for a boolean mask of the same length: the entries of a
\* at the True positions, in index order
RECURSIVE IndicesOf(_, _)
IndicesOf(mask, j) ==
    IF j > Len(mask) THEN <<>>
    ELSE (IF mask[j] THEN <<j>> ELSE <<>>) \o IndicesOf(mask, j + 1)

Where(mask) == IndicesOf(mask, 1)

RECURSIVE BoolIndexFrom(_, _, _)
BoolIndexFrom(a, mask, j) ==
    IF j > Len(mask) THEN <<>>
    ELSE (IF mask[j] THEN <<a[j]>> ELSE <<>>) \o BoolIndexFrom(a, mask, j + 1)

BoolIndex(a, mask) == BoolIndexFrom(a, mask, 1)

\* a.max()
ArrayMax(a) == CHOOSE x \in Range(a) : \A z \in Range(a) : z <= x

----------------------------------------------------------------------------
(* numpy *)

\* np.percentile(a, p) with linear interpolation, times PScale:
\* position p/100 * (n-1) in the sorted array, interpolated between its
\* two neighbours.
\* The array is given as groups <<value, count>>: count entries of that
\* value.
RECURSIVE GroupedSize(_)
GroupedSize(groups) ==
    IF groups = <<>> THEN 0 ELSE Head(groups)[2] + GroupedSize(Tail(groups))

RECURSIVE CountBelow(_, _, _)
CountBelow(groups, v, strict) ==
    IF groups = <<>> THEN 0
    ELSE (IF Head(groups)[1] < v \/ (~ strict /\ Head(groups)[1] = v)
          THEN Head(groups)[2] ELSE 0) + CountBelow(Tail(groups), v, strict)

\* entry k (from 1) of the sorted array
OrderStat(groups, k) ==
    CHOOSE v \in {groups[g][1] : g \in DOMAIN groups} :
        /\ CountBelow(groups, v, FALSE) >= k
        /\ CountBelow(groups, v, TRUE) < k

percentile_grouped(groups, p10) ==
    LET n   == GroupedSize(groups)
        pos == p10 * (n - 1)
        lo  == pos \div PScale
        hi  == IF lo + 1 < n THEN lo + 1 ELSE n - 1
        slo == OrderStat(groups, lo + 1)
        shi == OrderStat(groups, hi + 1)
    IN  PScale * slo + (pos - PScale * lo) * (shi - slo)

percentile(a, p10) ==
    percentile_grouped(Array(LAMBDA j : <<a[j], 1>>, Len(a)), p10)

\* the grid of np.arange(num) * step + start with no endpoint correction and
\* step = (stop - start) / num
linspace_open(start, stop, num) ==
    Array(LAMBDA t :
              (num - 1) * start + ((t - 1) * (stop - start) * (num - 1)) \div num,
          num)

\* np.linspace(start, stop, num), endpoint included, times (num - 1):
\* element i is start + i * step with step = (stop - start) / (num - 1),
\* and the last element is set to stop.
linspace(start, stop, num) ==
    Array(LAMBDA t : IF t = num THEN (num - 1) * stop
                     ELSE (num - 1) * start + (t - 1) * (stop - start),
          num)

\* An n-dimensional array: its shape and its entries in row-major order.
\* A 0-d array has shape <<>> and one entry.
NdArray(shape, data) == [kind |-> "ndarray", shape |-> shape, data |-> data]

NoneValue == [kind |-> "None", shape |-> <<>>, data |-> <<>>]

\* entry [r, c] of a 2-d array and entry [r, c, t] of a 3-d array (from 1)
At2(a, r, c) == a.data[(r - 1) * a.shape[2] + c]

At3(a, r, c, t) == a.data[((r - 1) * a.shape[2] + (c - 1)) * a.shape[3] + t]

RECURSIVE SumOver(_, _, _)
SumOver(f(_), lo, hi) == IF lo > hi THEN 0 ELSE f(lo) + SumOver(f, lo + 1, hi)

\* a[:, first:].sum(axis=1) for a 2-d or 3-d array a: the sum over the
\* columns with numpy index >= first; an empty slice sums to 0
SumColumnsFrom(a, first) ==
    LET n == a.shape[1]
        c == a.shape[2]
    IN  IF Len(a.shape) = 2
        THEN NdArray(<<n>>,
                 [r \in 1..n |->
                     LET f(col) == At2(a, r, col) IN SumOver(f, first + 1, c)])
        ELSE LET T == a.shape[3]
             IN  NdArray(<<n, T>>,
                     [x \in 1..(n * T) |->
                         LET r == ((x - 1) \div T) + 1
                             t == ((x - 1) % T) + 1
                             f(col) == At3(a, r, col, t)
                         IN  SumOver(f, first + 1, c)])

SumColumnsAfter(a, first) == SumColumnsFrom(a, first + 1)

\* a[:, first:] for a 2-d or 3-d array a
ColumnsFrom(a, first) ==
    LET n == a.shape[1]
        c == a.shape[2]
        w == IF c > first THEN c - first ELSE 0
    IN  IF Len(a.shape) = 2
        THEN NdArray(<<n, w>>,
                 [x \in 1..(n * w) |->
                     At2(a, ((x - 1) \div w) + 1, first + ((x - 1) % w) + 1)])
        ELSE LET T == a.shape[3]
             IN  NdArray(<<n, w, T>>,
                     [x \in 1..(n * w * T) |->
                         At3(a, ((x - 1) \div (w * T)) + 1,
                                first + (((x - 1) \div T) % w) + 1,
                                ((x - 1) % T) + 1)])

\* np.squeeze(a): every axis of length 1 is removed, the entries stay
RECURSIVE DropOnes(_)
DropOnes(shape) ==
    IF shape = <<>> THEN <<>>
    ELSE (IF shape[1] = 1 THEN <<>> ELSE <<shape[1]>>) \o DropOnes(Tail(shape))

squeeze(a) == NdArray(DropOnes(a.shape), a.data)

----------------------------------------------------------------------------
(* Program constants *)

\* the number of classes of the multi-class scores (levels 0..4)
NClasses == 5

----------------------------------------------------------------------------
(* binary_labels, binary_probs, detection_task *)

LabelsGeq(labels, min_positive_level) ==
    [j \in DOMAIN labels |-> IF labels[j] >= min_positive_level THEN 1 ELSE 0]

LabelsGt(labels, min_positive_level) ==
    [j \in DOMAIN labels |-> IF labels[j] > min_positive_level THEN 1 ELSE 0]

\* labels_bin = np.zeros_like(labels); 0 below the level, 1 from it on
binary_labels(labels, min_positive_level) ==
    LabelsGeq(labels, min_positive_level)

\* binary_probs summing the columns after the level
binary_probs_after(probs, min_positive_level) ==
    LET n_classes == probs.shape[2]
    IN  IF n_classes = NClasses
        THEN [value |-> SumColumnsAfter(probs, min_positive_level),
              printed |-> <<>>]
        ELSE IF n_classes = 2
        THEN [value |-> squeeze(ColumnsFrom(probs, 1)), printed |-> <<>>]
        ELSE [value |-> NoneValue,
              printed |-> <<<<"Unknown number of classes. Aborting.", n_classes>>>>]

\* figures.binary_probs: its value and what it prints
binary_probs(probs, min_positive_level) ==
    LET n_classes == probs.shape[2]
    IN  IF n_classes = NClasses
        THEN [value |-> SumColumnsFrom(probs, min_positive_level),
              printed |-> <<>>]
        ELSE IF n_classes = 2
        THEN [value |-> squeeze(ColumnsFrom(probs, 1)), printed |-> <<>>]
        ELSE [value |-> NoneValue,
              printed |-> <<<<"Unknown number of classes. Aborting.", n_classes>>>>]

\* a result that shares no memory with probs: a copy of the column
binary_probs_copy(probs, name) == {}

\* the arrays whose memory the result of figures.py's binary_probs shares:
\* the sum over columns is a new array, np.squeeze of the basic slice
\* probs[:, 1:] is a view of probs, and None is no array
binary_probs_base(probs, name) ==
    IF probs.shape[2] = NClasses THEN {}
    ELSE IF probs.shape[2] = 2 THEN {name}
    ELSE {}

\* rejection.binary_probs
rejection_binary_probs(probs, min_positive_level) ==
    SumColumnsFrom(probs, min_positive_level)

\* figures.detection_task
detection_task(y, probs, probs_mc, disease_level) ==
    LET y_diseased        == binary_labels(y, disease_level)
        probs_diseased    == binary_probs(probs, disease_level)
        probs_mc_diseased == binary_probs(probs_mc, disease_level)
    IN  [value   |-> <<y_diseased, probs_diseased.value, probs_mc_diseased.value>>,
         printed |-> probs_diseased.printed \o probs_mc_diseased.printed]

\* rejection.detection_task
rejection_detection_task(y, probs, probs_mc, disease_level) ==
    <<binary_labels(y, disease_level),
      rejection_binary_probs(probs, disease_level),
      rejection_binary_probs(probs_mc, disease_level)>>

----------------------------------------------------------------------------
(* numpy's global random generator.  Its state is a number below RngMod; *)
(* what it returns is a function of the state, and every draw moves the  *)
(* state on.                                                             *)

RngAdvance(r, draws) == (r + draws) % RngMod

RECURSIVE Factorial(_)
Factorial(m) == IF m <= 1 THEN 1 ELSE m * Factorial(m - 1)

RemoveAt(s, k) == SubSeq(s, 1, k - 1) \o SubSeq(s, k + 1, Len(s))

\* the arrangement number idx (from 0, in lexicographic order) of items
RECURSIVE NthArrangement(_, _)
NthArrangement(items, idx) ==
    IF items = <<>> THEN <<>>
    ELSE LET f == Factorial(Len(items) - 1)
             k == (idx \div f) + 1
         IN  <<items[k]>> \o NthArrangement(RemoveAt(items, k), idx % f)

\* the order in which a shuffle of m entries started in state r leaves them
ShuffleOrder(m, r) == NthArrangement(Array(LAMBDA t : t, m), r % Factorial(m))

\* a shuffle of m entries draws m - 1 times (none for m <= 1)
ShuffleDraws(m) == IF m >= 2 THEN m - 1 ELSE 0

\* m indices drawn with replacement, each below m (from 1)
ChoiceOrder(m, r) ==
    Array(LAMBDA t : (((7 * r + 3) \div (m ^ (t - 1))) % m) + 1, m)

\* np.random.permutation(a): a shuffled copy of a
Reordered(a, order) == Array(LAMBDA t : a[order[t]], Len(order))

PermutedCopy(a, r) == Reordered(a, ShuffleOrder(Len(a), r))

permutation(a, r) == PermutedCopy(a, r)

\* np.random.shuffle(a), for the array it leaves
shuffle(a, r) == Reordered(a, ShuffleOrder(Len(a), r))

----------------------------------------------------------------------------
(* stratified_mask *)

\* np.unique(a): the distinct values in increasing order
RECURSIVE SortedSeqOf(_)
SortedSeqOf(S) ==
    IF S = {} THEN <<>>
    ELSE LET x == CHOOSE z \in S : \A w \in S : z <= w
         IN  <<x>> \o SortedSeqOf(S \ {x})

unique(a) == SortedSeqOf(Range(a))

\* (a == k).sum()
CountOf(a, k) == Cardinality({j \in DOMAIN a : a[j] = k})

\* the indices of the members of class k from the last to the first
WhereEqualDescending(a, k) ==
    LET w == Where([j \in DOMAIN a |-> a[j] = k])
    IN  [j \in DOMAIN w |-> w[Len(w) + 1 - j]]

\* np.where(a == k)[0]
WhereEqual(a, k) == Where([j \in DOMAIN a |-> a[j] = k])

\* idx_k in the place of idx_k[:n]: every member of the class
TakeAll(a, n) == a

\* a[:n] for n >= 0
Take(a, n) == SubSeq(a, 1, IF n < Len(a) THEN n ELSE Len(a))

\* the loop over the classes k with their counts, from class number c on:
\* the mask and the generator's state when the loop ends
RECURSIVE StratifiedLoop(_, _, _, _, _, _)
StratifiedLoop(y, y_prior, do_shuffle, classes, mask, r) ==
    IF classes = <<>> THEN [mask |-> mask, rng |-> r]
    ELSE LET k     == Head(classes)
             n     == CountOf(y_prior, k)
             idx   == WhereEqual(y, k)
             idx_k == IF do_shuffle THEN shuffle(idx, r) ELSE idx
             r2    == IF do_shuffle THEN RngAdvance(r, ShuffleDraws(Len(idx)))
                      ELSE r
             select_n_from_k == Range(Take(idx_k, n))
         IN  StratifiedLoop(y, y_prior, do_shuffle, Tail(classes),
                 [j \in DOMAIN mask |-> mask[j] \/ j \in select_n_from_k], r2)

stratified_mask(y, y_prior, do_shuffle, r) ==
    StratifiedLoop(y, y_prior, do_shuffle, unique(y_prior),
                   [j \in DOMAIN y |-> FALSE], r)

----------------------------------------------------------------------------
(* Measures.  A score is carried times 2, so 0.5 is 1.  The value of a    *)
(* measure is a fraction <<num, den>>; <<0, 0>> is NaN.  A measure that   *)
(* raises has ok = FALSE.                                                 *)

NaN == <<0, 0>>

Value(f) == [ok |-> TRUE, value |-> f]

\* a default value returned in the place of the exception
ReturnedDefault(what) == [ok |-> TRUE, value |-> <<0, 1>>]

Raised(what) == [ok |-> FALSE, value |-> what]

\* (probs >= 0.5).astype(int)
argmax_labels(probs) == [j \in DOMAIN probs |-> IF probs[j] >= 1 THEN 1 ELSE 0]

\* (y_true == y_pred).sum() / float(len(y_true)); 0 / 0.0 is nan
accuracy(y_true, probs) ==
    LET y_pred == argmax_labels(probs)
    IN  Value(<<Cardinality({j \in DOMAIN y_true : y_true[j] = y_pred[j]}),
                Len(y_true)>>)

\* sklearn's roc_auc_score for labels 0/1: the share of (positive, negative)
\* pairs ranked in order, ties counting half; it raises ValueError unless
\* both classes are present
roc_auc_score(y_true, y_score) ==
    LET pos == {j \in DOMAIN y_true : y_true[j] = 1}
        neg == {j \in DOMAIN y_true : y_true[j] = 0}
        gt  == Cardinality({q \in pos \X neg : y_score[q[1]] > y_score[q[2]]})
        eq  == Cardinality({q \in pos \X neg : y_score[q[1]] = y_score[q[2]]})
    IN  IF pos = {} \/ neg = {} THEN Raised("ValueError")
        ELSE Value(<<2 * gt + eq, 2 * Cardinality(pos) * Cardinality(neg)>>)

Measures == {"accuracy", "roc_auc_score"}

\* measure(labels, scores) for the measure passed by name
Measure(measure, labels, scores) ==
    IF measure = "accuracy" THEN accuracy(labels, scores)
    ELSE roc_auc_score(labels, scores)

----------------------------------------------------------------------------
(* util.bootstrap(data, fun, n_resamples, alpha): the alpha/2 and         *)
(* 1 - alpha/2 percentiles of fun over n_resamples resamples with         *)
(* replacement of the size of the data, the paired arrays resampled with  *)
(* the same indices.  alpha is given in tenths of a percent.              *)

\* a denominator that every value of a measure on m samples divides
CommonDen(m) == 2 * Factorial(m)

\* Resample b (from 0) is drawn in generator state r + b * m, and these
\* states repeat with a period; so the n_resamples statistics are those of
\* the first period, statistic c standing for every resample b = c, c +
\* period, ... below n_resamples.
ResamplePeriod(m) == CHOOSE q \in 1..RngMod : (q * m) % RngMod = 0

\* the statistics of the resamples 0 .. first - 1
ResampleStats(labels, scores, measure, first, r) ==
    Array(LAMBDA c :
              Bind(ChoiceOrder(Len(labels), RngAdvance(r, (c - 1) * Len(labels))),
                   LAMBDA idx : Measure(measure, Reordered(labels, idx),
                                                 Reordered(scores, idx))),
          first)

\* the statistics over the common denominator D, each with the number of
\* resamples it stands for
StatGroups(stats, D, n_resamples, period) ==
    Array(LAMBDA c : <<stats[c].value[1] * (D \div stats[c].value[2]),
                       (n_resamples - c + period) \div period>>,
          Len(stats))

BootstrapInterval(stats, m, n_resamples, period, alpha10, r) ==
    LET failed == {c \in 1..Len(stats) : ~ stats[c].ok}
        first_failed == CHOOSE c \in failed : \A d \in failed : c <= d
        after  == RngAdvance(r, n_resamples * m)
        D      == CommonDen(m)
    IN  IF failed # {}
        THEN [ok |-> FALSE, low |-> NaN, high |-> NaN,
              rng |-> RngAdvance(r, first_failed * m)]
        ELSE IF m = 0
        THEN [ok |-> TRUE, low |-> NaN, high |-> NaN, rng |-> after]
        ELSE Bind(StatGroups(stats, D, n_resamples, period),
                  LAMBDA groups :
                      [ok |-> TRUE,
                       low  |-> <<percentile_grouped(groups, alpha10 \div 2),
                                  D * PScale>>,
                       high |-> <<percentile_grouped(groups, PScale - alpha10 \div 2),
                                  D * PScale>>,
                       rng  |-> after])

bootstrap(labels, scores, measure, n_resamples, alpha10, r) ==
    LET m      == Len(labels)
        period == ResamplePeriod(m)
        first  == IF n_resamples < period THEN n_resamples ELSE period
    IN  Bind(ResampleStats(labels, scores, measure, first, r),
             LAMBDA stats :
                 BootstrapInterval(stats, m, n_resamples, period, alpha10, r))

----------------------------------------------------------------------------
(* figures.sample_rejection *)

\* accept = (uncertainty <= ut); ut is carried times GScale
AcceptLeq(uncertainty, ut) ==
    Array(LAMBDA j : uncertainty[j] * GScale <= ut, Len(uncertainty))

AcceptLt(uncertainty, ut) ==
    Array(LAMBDA j : uncertainty[j] * GScale < ut, Len(uncertainty))

AcceptGeq(uncertainty, ut) ==
    Array(LAMBDA j : uncertainty[j] * GScale >= ut, Len(uncertainty))

\* a mask that keeps what the grid point evaluated before it accepted
AcceptMaskCumulative(uncertainty, ut) ==
    Array(LAMBDA j : \/ uncertainty[j] * GScale <= ut
                     \/ /\ "accept" \in DOMAIN loc
                        /\ Len(loc.accept) = Len(uncertainty)
                        /\ loc.accept[j],
          Len(uncertainty))

AcceptMask(uncertainty, ut) == AcceptLeq(uncertainty, ut)

\* the share of the samples that the mask leaves out
FractionRejected(accept, n_samples) ==
    <<n_samples - CountTrue(accept), n_samples>>

\* accept.sum() / float(n_samples)
Fraction(accept, n_samples) == <<CountTrue(accept), n_samples>>

\* uncertainty_tol = np.linspace(np.percentile(uncertainty, min_percentile),
\*                               maximum, 100)
ThresholdGrid(uncertainty, min_percentile, maximum) ==
    linspace(percentile(uncertainty, min_percentile), PScale * maximum, K)

\* maximum is <<>> for None and <<m>> for a caller-supplied m
sample_rejection(uncertainty, min_percentile, maximum) ==
    LET mx   == IF maximum = <<>> THEN ArrayMax(uncertainty) ELSE maximum[1]
        tol  == ThresholdGrid(uncertainty, min_percentile, mx)
        n_samples == Len(uncertainty)
        accept_indices ==
            Array(LAMBDA t : AcceptMask(uncertainty, tol[t]), Len(tol))
    IN  [uncertainty_tol |-> tol,
         frac_retain     |-> Array(LAMBDA t : Fraction(accept_indices[t], n_samples),
                                   Len(tol)),
         accept_indices  |-> accept_indices]

----------------------------------------------------------------------------
(* performance_over_uncertainty_tol *)

\* a (value, low, high) entry of np.zeros
ZeroPoint == [value |-> <<0, 1>>, low |-> <<0, 1>>, high |-> <<0, 1>>]

\* figures.py, lines 233-241: the grid and the zeroed curves
figures_engine_start(uncertainty, min_percentile) ==
    LET sr == sample_rejection(uncertainty, min_percentile, <<>>)
    IN  [uncertainty_tol |-> sr.uncertainty_tol,
         frac_retain     |-> sr.frac_retain,
         accept_idx      |-> sr.accept_indices,
         p               |-> Array(LAMBDA t : ZeroPoint, Len(sr.uncertainty_tol)),
         p_rand          |-> Array(LAMBDA t : ZeroPoint, Len(sr.uncertainty_tol)),
         i               |-> 1,
         accept          |-> <<>>,
         rand_sel        |-> <<>>]

\* np.random.choice(accept, len(accept)) in the place of a permutation
RandomSelectionWithReplacement(accept, r) ==
    Reordered(accept, ChoiceOrder(Len(accept), r))

\* a selection drawn from a generator that a seed does not reset: it has
\* moved on with every call made
RandomSelectionUnseeded(accept, r) == permutation(accept, r + kept.calls)

\* the random baseline's selection
RandomSelection(accept, r) == permutation(accept, r)

\* figures.py, lines 244-259: iteration l.i of the loop.  The result is the
\* locals and the generator's state after it, or ok = FALSE where the
\* measure or the bootstrap raises.
figures_engine_step(l, y, probs, measure, n_bootstrap, r) ==
    LET i        == l.i
        accept   == l.accept_idx[i]
        rand_sel == RandomSelection(accept, r)
        r1       == RngAdvance(r, ShuffleDraws(Len(accept)))
        ya       == BoolIndex(y, accept)
        pa       == BoolIndex(probs, accept)
        b1       == bootstrap(ya, pa, measure, n_bootstrap, Alpha10, r1)
        v1       == Measure(measure, ya, pa)
        yr       == BoolIndex(y, rand_sel)
        pr       == BoolIndex(probs, rand_sel)
        b2       == bootstrap(yr, pr, measure, RandResamples, Alpha10, b1.rng)
        v2       == Measure(measure, yr, pr)
        seen     == [l EXCEPT !.accept = accept, !.rand_sel = rand_sel]
    IN  IF ~ b1.ok THEN [ok |-> FALSE, loc |-> seen, rng |-> b1.rng]
        ELSE IF ~ v1.ok THEN [ok |-> FALSE, loc |-> seen, rng |-> b1.rng]
        ELSE LET withp == [seen EXCEPT !.p[i] = [value |-> v1.value,
                                                 low   |-> b1.low,
                                                 high  |-> b1.high]]
             IN  IF ~ b2.ok \/ ~ v2.ok
                 THEN [ok |-> FALSE, loc |-> withp, rng |-> b2.rng]
                 ELSE [ok  |-> TRUE,
                       loc |-> [withp EXCEPT !.p_rand[i] = [value |-> v2.value,
                                                            low   |-> b2.low,
                                                            high  |-> b2.high],
                                             !.i = i + 1],
                       rng |-> b2.rng]

\* rejection.py, lines 102-109
rejection_engine_start(uncertainty) ==
    LET tol == linspace(percentile(uncertainty, RejectionMinPercentile),
                        PScale * ArrayMax(uncertainty), K)
        zeros == Array(LAMBDA t : <<0, 1>>, Len(tol))
    IN  [uncertainty_tol |-> tol,
         p               |-> zeros,
         p_rand          |-> zeros,
         p_strat         |-> zeros,
         frac_retain     |-> zeros,
         i               |-> 1,
         accept          |-> <<>>,
         rand_sel        |-> <<>>,
         strat_sel       |-> <<>>]

\* rejection.py, lines 111-117: iteration l.i of the loop
rejection_engine_step(l, uncertainty, y, probs, measure, r) ==
    LET i         == l.i
        accept    == AcceptMask(uncertainty, l.uncertainty_tol[i])
        rand_sel  == RandomSelection(accept, r)
        r1        == RngAdvance(r, ShuffleDraws(Len(accept)))
        st        == stratified_mask(y, BoolIndex(y, accept), TRUE, r1)
        strat_sel == st.mask
        v1 == Measure(measure, BoolIndex(y, accept), BoolIndex(probs, accept))
        v2 == Measure(measure, BoolIndex(y, rand_sel), BoolIndex(probs, rand_sel))
        v3 == Measure(measure, BoolIndex(y, strat_sel), BoolIndex(probs, strat_sel))
        seen == [l EXCEPT !.accept = accept, !.rand_sel = rand_sel,
                          !.strat_sel = strat_sel]
    IN  IF ~ v1.ok THEN [ok |-> FALSE, loc |-> seen, rng |-> st.rng]
        ELSE IF ~ v2.ok
        THEN [ok |-> FALSE, loc |-> [seen EXCEPT !.p[i] = v1.value], rng |-> st.rng]
        ELSE IF ~ v3.ok
        THEN [ok |-> FALSE,
              loc |-> [seen EXCEPT !.p[i] = v1.value, !.p_rand[i] = v2.value],
              rng |-> st.rng]
        ELSE [ok  |-> TRUE,
              loc |-> [seen EXCEPT !.p[i] = v1.value,
                                   !.p_rand[i] = v2.value,
                                   !.p_strat[i] = v3.value,
                                   !.frac_retain[i] =
                                       Fraction(accept, Len(uncertainty)),
                                   !.i = i + 1],
              rng |-> st.rng]

----------------------------------------------------------------------------
(* Binary floating point: the numbers of a float array and numpy's         *)
(* arithmetic on them.  A float is m / 2^e with an integer m of at most    *)
(* SignificandBits bits; every operation returns the float nearest to the  *)
(* exact result, ties to the even significand.  The exponent range is not  *)
(* limited.                                                                *)

\* the bits of the significand (float64 has 53; the arithmetic here is the
\* same at fewer bits, and the integers up to K stay exact)
SignificandBits == 8

RECURSIVE Pow2(_)
Pow2(k) == IF k <= 0 THEN 1 ELSE 2 * Pow2(k - 1)

RECURSIVE BitLength(_)
BitLength(x) == IF x = 0 THEN 0 ELSE 1 + BitLength(x \div 2)

Magnitude(x) == IF x < 0 THEN 0 - x ELSE x

Larger(a, b) == IF a >= b THEN a ELSE b

\* the one representation of m / 2^e: m is odd wherever e > 0
RECURSIVE Float(_, _)
Float(m, e) ==
    IF m = 0 THEN [m |-> 0, e |-> 0]
    ELSE IF e > 0 /\ m % 2 = 0 THEN Float(m \div 2, e - 1)
    ELSE [m |-> m, e |-> e]

\* the float nearest to the exact m / 2^e, ties to even
RoundNearestEven(m, e) ==
    LET a == Magnitude(m)
        s == BitLength(a) - SignificandBits
    IN  IF s <= 0 THEN Float(m, e)
        ELSE LET q    == a \div Pow2(s)
                 r    == a % Pow2(s)
                 half == Pow2(s - 1)
                 q2   == IF r > half \/ (r = half /\ q % 2 = 1) THEN q + 1 ELSE q
             IN  Float((IF m < 0 THEN 0 - q2 ELSE q2) * Pow2(s), e)

\* x + y
float_add(x, y) ==
    LET e == Larger(x.e, y.e)
    IN  RoundNearestEven(x.m * Pow2(e - x.e) + y.m * Pow2(e - y.e), e)

\* x - y
float_subtract(x, y) ==
    LET e == Larger(x.e, y.e)
    IN  RoundNearestEven(x.m * Pow2(e - x.e) - y.m * Pow2(e - y.e), e)

\* x * y
float_multiply(x, y) == RoundNearestEven(x.m * y.m, x.e + y.e)

\* x / n for a count n > 0: the quotient with the bits that decide the
\* rounding and one more bit that says whether anything is left
float_true_divide(x, n) ==
    LET a == Magnitude(x.m)
        k == SignificandBits + 2 + BitLength(n)
        q == (a * Pow2(k)) \div n
        left == IF (a * Pow2(k)) % n = 0 THEN 0 ELSE 1
        w == 2 * q + left
    IN  RoundNearestEven(IF x.m < 0 THEN 0 - w ELSE w, x.e + k + 1)

\* the largest r in lo..hi with r * r <= N
RECURSIVE SqrtBetween(_, _, _)
SqrtBetween(N, lo, hi) ==
    IF lo >= hi THEN lo
    ELSE LET mid == (lo + hi + 1) \div 2
         IN  IF mid * mid <= N THEN SqrtBetween(N, mid, hi)
             ELSE SqrtBetween(N, lo, mid - 1)

\* the integer square root
IntSqrt(N) == SqrtBetween(N, 0, Pow2((BitLength(N) \div 2) + 1))

\* np.sqrt(x) for x >= 0
float_sqrt(x) ==
    IF x.m = 0 THEN Float(0, 0)
    ELSE LET odd == x.e % 2 = 1
             m2  == IF odd THEN 2 * x.m ELSE x.m
             e2  == IF odd THEN x.e + 1 ELSE x.e
             k   == SignificandBits + 1
             N   == m2 * Pow2(2 * k)
             r   == IntSqrt(N)
             left == IF r * r = N THEN 0 ELSE 1
         IN  RoundNearestEven(2 * r + left, (e2 \div 2) + k + 1)

\* x <= y
float_leq(x, y) ==
    LET e == Larger(x.e, y.e)
    IN  x.m * Pow2(e - x.e) <= y.m * Pow2(e - y.e)

FloatZero == Float(0, 0)

FloatOne == Float(1, 0)

\* np.add.reduce over a row of fewer than eight elements: from the first
\* element on, one addition after the other
RECURSIVE AddReduce(_, _)
AddReduce(row, n) ==
    IF n = 1 THEN row[1] ELSE float_add(AddReduce(row, n - 1), row[n])

\* row r of a 2-d array
RowOf(a, r) == [j \in 1..a.shape[2] |-> At2(a, r, j)]

\* a.mean(axis=1): the sum of each row divided by the number of columns
mean_axis1(a) ==
    [r \in 1..a.shape[1] |->
        float_true_divide(AddReduce(RowOf(a, r), a.shape[2]), a.shape[2])]

\* a.std(axis=1): the square root of the mean of the squares of the
\* deviations from the row's mean
std_axis1(a) ==
    [r \in 1..a.shape[1] |->
        LET mu == float_true_divide(AddReduce(RowOf(a, r), a.shape[2]), a.shape[2])
            x  == [j \in 1..a.shape[2] |-> float_subtract(At2(a, r, j), mu)]
            xx == [j \in 1..a.shape[2] |-> float_multiply(x[j], x[j])]
        IN  float_sqrt(float_true_divide(AddReduce(xx, a.shape[2]), a.shape[2]))]

\* figures.py's posterior_statistics, with its assertion
posterior_statistics(probs_mc_bin) ==
    LET predictive_mean == mean_axis1(probs_mc_bin)
        predictive_std  == std_axis1(probs_mc_bin)
    IN  IF \A r \in DOMAIN predictive_std : float_leq(FloatZero, predictive_std[r])
        THEN Value(<<predictive_mean, predictive_std>>)
        ELSE Raised("AssertionError")

\* rejection.py's posterior_statistics
rejection_posterior_statistics(probs_mc_bin) ==
    Value(<<mean_axis1(probs_mc_bin), std_axis1(probs_mc_bin)>>)

----------------------------------------------------------------------------
(* figures.sample_rejection on float uncertainties: np.percentile's linear *)
(* interpolation (numpy before 1.20, the numpy of Python 2) and            *)
(* np.linspace in floating point                                           *)

\* x < y
float_lt(x, y) == ~ float_leq(y, x)

\* a.max()
FloatMax(a) == CHOOSE x \in Range(a) : \A j \in DOMAIN a : float_leq(a[j], x)

\* entry k (from 1) of the sorted copy of a
FloatOrderStat(a, k) ==
    CHOOSE x \in Range(a) :
        /\ Cardinality({j \in DOMAIN a : float_lt(a[j], x)}) < k
        /\ k <= Cardinality({j \in DOMAIN a : float_leq(a[j], x)})

\* np.percentile(a, q) for a whole number q of percent: the index
\* q / 100.0 * (n - 1), its floor and the next index, and the two sorted
\* entries weighted by 1 - w and w
float_percentile(a, q) ==
    LET n       == Len(a)
        indices == float_multiply(float_true_divide(Float(q, 0), 100),
                                  Float(n - 1, 0))
        below   == indices.m \div Pow2(indices.e)
        above   == IF below + 1 > n - 1 THEN n - 1 ELSE below + 1
        weights_above == float_subtract(indices, Float(below, 0))
        weights_below == float_subtract(FloatOne, weights_above)
        x1 == float_multiply(FloatOrderStat(a, below + 1), weights_below)
        x2 == float_multiply(FloatOrderStat(a, above + 1), weights_above)
    IN  float_add(x1, x2)

\* np.linspace(start, stop, num): arange(0, num) * step + start with
\* step = (stop - start) / (num - 1), and the last entry set to stop
float_linspace(start, stop, num) ==
    LET step == float_true_divide(float_subtract(stop, start), num - 1)
    IN  Array(LAMBDA t : IF t = num THEN stop
                         ELSE float_add(float_multiply(Float(t - 1, 0), step),
                                        start),
              num)

\* accept = (uncertainty <= ut)
FloatAcceptMask(uncertainty, ut) ==
    Array(LAMBDA j : float_leq(uncertainty[j], ut), Len(uncertainty))

\* figures.py, lines 264-278, on floats; maximum is <<>> for None
float_sample_rejection(uncertainty, min_percentile, maximum) ==
    LET mx   == IF maximum = <<>> THEN FloatMax(uncertainty) ELSE maximum[1]
        tol  == float_linspace(float_percentile(uncertainty, min_percentile),
                               mx, K)
        n_samples == Len(uncertainty)
        accept_indices ==
            Array(LAMBDA t : FloatAcceptMask(uncertainty, tol[t]), Len(tol))
    IN  [uncertainty_tol |-> tol,
         frac_retain     |-> Array(LAMBDA t : Fraction(accept_indices[t], n_samples),
                                   Len(tol)),
         accept_indices  |-> accept_indices]

----------------------------------------------------------------------------
(* Inputs *)

Vectors(S) == UNION {[1..n -> S] : n \in 1..MaxN}

UncertaintyVectors == Vectors(0..MaxU)

\* the percentiles of the call sites (0, 0.1, 10, 50) and the upper end 100
MinPercentiles == {0, 1, 100, 500, 1000}

Maxima == {<<>>} \cup {<<m>> : m \in 0..(MaxU + 1)}

NoArrays ==
    [levels |-> <<>>, probs |-> NoneValue, probs_mc |-> NoneValue,
     probs_mc_bin |-> NoneValue,
     uncertainty |-> <<>>, y |-> <<>>, y_prior |-> <<>>, scores |-> <<>>]

NoCall == [none |-> TRUE]

\* score matrices: n rows, c class columns (and T draws), entries 0..MaxP
Matrix2(n, c, a, b) ==
    NdArray(<<n, c>>,
        [x \in 1..(n * c) |->
            (a * (((x - 1) \div c) + 1) + b * (((x - 1) % c) + 1)) % (MaxP + 1)])

Matrix3(n, c, T, a, b) ==
    NdArray(<<n, c, T>>,
        [x \in 1..(n * c * T) |->
            (a * (((x - 1) \div (c * T)) + 1)
               + b * ((((x - 1) \div T) % c) + 1)
               + ((x - 1) % T)) % (MaxP + 1)])

ColumnCounts == {1, 2, 3, NClasses, NClasses + 1}

ThresholdLevels == 1..NClasses

\* the five levels in order, next to every short vector of levels
AllLevels == [j \in 1..NClasses |-> j - 1]

LevelPopulations ==
    {[NoArrays EXCEPT !.levels = l] :
        l \in Vectors(0..(NClasses - 1)) \cup {AllLevels}}

MatrixPopulations ==
    {[NoArrays EXCEPT !.levels   = [r \in 1..n |-> (r + a + b) % NClasses],
                      !.probs    = Matrix2(n, c, a, b),
                      !.probs_mc = Matrix3(n, c, T, a, b)] :
        n \in 1..MaxN, c \in ColumnCounts, T \in 1..MaxT,
        a \in 0..MaxP, b \in 0..MaxP}

\* binary labels in two patterns: alternating from 1, and two samples of
\* class 0 followed by samples of class 1
EngineLabels(n, a) ==
    [j \in 1..n |-> IF a = 0 THEN j % 2 ELSE IF j <= 2 THEN 0 ELSE 1]

\* the engine's populations: uncertainties of two levels, binary labels, and
\* scores (times 2) that are the label at the odd places and 0.5 at the even
\* ones
EnginePopulations ==
    {[NoArrays EXCEPT !.uncertainty = u,
                      !.y = EngineLabels(Len(u), a),
                      !.scores = [j \in DOMAIN u |->
                                     IF j % 2 = 1 THEN 2 * EngineLabels(Len(u), a)[j]
                                     ELSE 1]] :
        u \in UNION {[1..n -> {0, 1}] : n \in 1..MaxEngineN},
        a \in {0, 1}}

\* the draws: 0 and the floats of the last DrawLevels places up to 1
DrawValues ==
    {FloatZero} \cup
    {Float(k, SignificandBits) :
        k \in (Pow2(SignificandBits) - DrawLevels)..Pow2(SignificandBits)}

\* MC-draw matrices of n rows and m draws: the odd rows alternate between
\* the draws a and b, the even rows are constant at a
DrawMatrix(n, m, a, b) ==
    NdArray(<<n, m>>,
        [x \in 1..(n * m) |->
            IF (((x - 1) \div m) + 1) % 2 = 1 /\ (((x - 1) % m) + 1) % 2 = 0
            THEN b ELSE a])

DrawPopulations ==
    {[NoArrays EXCEPT !.probs_mc_bin = DrawMatrix(n, m, a, b)] :
        n \in 1..MaxRows, m \in 1..MaxDraws, a \in DrawValues, b \in DrawValues}

\* float uncertainties: 0 and the floats of the last places up to 1
FloatUncertaintyVectors ==
    UNION {[1..n -> DrawValues] : n \in 1..MaxFloatN}

\* min_percentile in whole percent: the 0.0, 10 and 50 of the call sites and
\* the upper end 100
FloatMinPercentiles == {0, 10, 50, 100}

\* the percentiles the engine is called with: 0.0, the 10 that rejection.py
\* takes, and the configured 50
EngineMinPercentiles == {0, 100, 500}

----------------------------------------------------------------------------
(* The calls *)

\* the caller has kept nothing: the seed it gave the generator, the number
\* of calls it has kept the result of, and the result
NothingKept == [seed |-> 0, calls |-> 0, first |-> <<>>]

Idle ==
    /\ pc = "idle"
    /\ op = "none"
    /\ call = NoCall
    /\ ret = <<>>
    /\ stdout = <<>>
    /\ loc = <<>>
    /\ base = {}

Call_binary_labels ==
    /\ pc = "idle"
    /\ arrays.levels # <<>>
    /\ \E L \in ThresholdLevels :
          /\ call' = [min_positive_level |-> L]
          /\ ret' = binary_labels(arrays.levels, L)
    /\ op' = "binary_labels"
    /\ pc' = "done"
    /\ UNCHANGED <<kept, base, arrays, stdout, rng, loc>>

\* the scores are the point scores (2-d) or the MC scores (3-d)
ScoreArgument(which) == IF which = "probs" THEN arrays.probs ELSE arrays.probs_mc

Call_binary_probs ==
    /\ pc = "idle"
    /\ arrays.probs.kind = "ndarray"
    /\ \E L \in ThresholdLevels, which \in {"probs", "probs_mc"} :
          LET r == binary_probs(ScoreArgument(which), L)
          IN  /\ call' = [min_positive_level |-> L, which |-> which]
              /\ ret' = r.value
              /\ stdout' = r.printed
              /\ base' = binary_probs_base(ScoreArgument(which), which)
    /\ op' = "binary_probs"
    /\ pc' = "done"
    /\ UNCHANGED <<kept, arrays, rng, loc>>

Call_rejection_binary_probs ==
    /\ pc = "idle"
    /\ arrays.probs.kind = "ndarray"
    /\ \E L \in ThresholdLevels, which \in {"probs", "probs_mc"} :
          /\ call' = [min_positive_level |-> L, which |-> which]
          /\ ret' = rejection_binary_probs(ScoreArgument(which), L)
    /\ op' = "rejection_binary_probs"
    /\ pc' = "done"
    /\ UNCHANGED <<kept, base, arrays, stdout, rng, loc>>

Call_detection_task ==
    /\ pc = "idle"
    /\ arrays.probs.kind = "ndarray"
    /\ \E L \in ThresholdLevels :
          LET r == detection_task(arrays.levels, arrays.probs, arrays.probs_mc, L)
          IN  /\ call' = [disease_level |-> L]
              /\ ret' = r.value
              /\ stdout' = r.printed
    /\ base' = binary_probs_base(arrays.probs, "probs")
                \cup binary_probs_base(arrays.probs_mc, "probs_mc")
    /\ op' = "detection_task"
    /\ pc' = "done"
    /\ UNCHANGED <<kept, arrays, rng, loc>>

Call_rejection_detection_task ==
    /\ pc = "idle"
    /\ arrays.probs.kind = "ndarray"
    /\ \E L \in ThresholdLevels :
          /\ call' = [disease_level |-> L]
          /\ ret' = rejection_detection_task(arrays.levels, arrays.probs,
                                             arrays.probs_mc, L)
    /\ op' = "rejection_detection_task"
    /\ pc' = "done"
    /\ UNCHANGED <<kept, base, arrays, stdout, rng, loc>>

Call_sample_rejection ==
    /\ pc = "idle"
    /\ arrays.uncertainty # <<>>
    /\ \E p \in MinPercentiles, m \in Maxima :
          /\ call' = [min_percentile |-> p, maximum |-> m]
          /\ ret' = sample_rejection(arrays.uncertainty, p, m)
    /\ op' = "sample_rejection"
    /\ pc' = "done"
    /\ UNCHANGED <<kept, base, arrays, stdout, rng, loc>>

\* the caller takes the result (or the exception) and may call again
Return ==
    /\ pc \in {"done", "error"}
    /\ pc' = "idle"
    /\ op' = "none"
    /\ call' = NoCall
    /\ ret' = <<>>
    /\ stdout' = <<>>
    /\ loc' = <<>>
    /\ base' = {}
    /\ UNCHANGED <<kept, arrays, rng>>

Call_stratified_mask ==
    /\ pc = "idle"
    /\ arrays.y # <<>>
    /\ \E do_shuffle \in BOOLEAN :
          LET r == stratified_mask(arrays.y, arrays.y_prior, do_shuffle, rng)
          IN  /\ call' = [shuffle |-> do_shuffle]
              /\ ret' = r.mask
              /\ rng' = r.rng
    /\ op' = "stratified_mask"
    /\ pc' = "done"
    /\ UNCHANGED <<kept, base, arrays, stdout, loc>>

\* figures.performance_over_uncertainty_tol up to its loop
Call_performance_over_uncertainty_tol ==
    /\ pc = "idle"
    /\ arrays.scores # <<>>
    /\ \E measure \in Measures, min_percentile \in EngineMinPercentiles,
          n_bootstrap \in {MaxBootstrap} :
          /\ call' = [measure |-> measure, min_percentile |-> min_percentile,
                      n_bootstrap |-> n_bootstrap]
          /\ loc' = figures_engine_start(arrays.uncertainty, min_percentile)
    /\ op' = "performance_over_uncertainty_tol"
    /\ pc' = "loop"
    /\ UNCHANGED <<kept, base, arrays, ret, stdout, rng>>

\* one iteration of its loop; an exception ends the call
Loop_performance_over_uncertainty_tol ==
    /\ pc = "loop"
    /\ op = "performance_over_uncertainty_tol"
    /\ loc.i <= Len(loc.uncertainty_tol)
    /\ \E s \in {figures_engine_step(loc, arrays.y, arrays.scores, call.measure,
                                     call.n_bootstrap, rng)} :
           /\ loc' = s.loc
           /\ rng' = s.rng
           /\ pc' = IF s.ok THEN "loop" ELSE "error"
           /\ ret' = IF s.ok THEN ret ELSE [exception |-> "ValueError"]
    /\ UNCHANGED <<kept, base, op, arrays, call, stdout>>

\* its return statement
Return_performance_over_uncertainty_tol ==
    /\ pc = "loop"
    /\ op = "performance_over_uncertainty_tol"
    /\ loc.i > Len(loc.uncertainty_tol)
    /\ ret' = [uncertainty_tol |-> loc.uncertainty_tol,
               frac_retain     |-> loc.frac_retain,
               p               |-> loc.p,
               p_rand          |-> loc.p_rand]
    /\ pc' = "done"
    /\ UNCHANGED <<kept, base, op, arrays, call, stdout, rng, loc>>

\* rejection.performance_over_uncertainty_tol up to its loop
Call_rejection_performance_over_uncertainty_tol ==
    /\ pc = "idle"
    /\ arrays.scores # <<>>
    /\ \E measure \in Measures :
          /\ call' = [measure |-> measure]
          /\ loc' = rejection_engine_start(arrays.uncertainty)
    /\ op' = "rejection_performance_over_uncertainty_tol"
    /\ pc' = "loop"
    /\ UNCHANGED <<kept, base, arrays, ret, stdout, rng>>

Loop_rejection_performance_over_uncertainty_tol ==
    /\ pc = "loop"
    /\ op = "rejection_performance_over_uncertainty_tol"
    /\ loc.i <= Len(loc.uncertainty_tol)
    /\ \E s \in {rejection_engine_step(loc, arrays.uncertainty, arrays.y,
                                       arrays.scores, call.measure, rng)} :
           /\ loc' = s.loc
           /\ rng' = s.rng
           /\ pc' = IF s.ok THEN "loop" ELSE "error"
           /\ ret' = IF s.ok THEN ret ELSE [exception |-> "ValueError"]
    /\ UNCHANGED <<kept, base, op, arrays, call, stdout>>

Return_rejection_performance_over_uncertainty_tol ==
    /\ pc = "loop"
    /\ op = "rejection_performance_over_uncertainty_tol"
    /\ loc.i > Len(loc.uncertainty_tol)
    /\ ret' = [uncertainty_tol |-> loc.uncertainty_tol,
               frac_retain     |-> loc.frac_retain,
               p               |-> loc.p,
               p_rand          |-> loc.p_rand,
               p_strat         |-> loc.p_strat]
    /\ pc' = "done"
    /\ UNCHANGED <<kept, base, op, arrays, call, stdout, rng, loc>>

----------------------------------------------------------------------------
(* The detection task on its own *)

InitTask ==
    /\ Idle
    /\ kept = NothingKept
    /\ arrays \in LevelPopulations \cup MatrixPopulations
    /\ rng = 0

NextTask ==
    \/ Call_binary_labels
    \/ Call_binary_probs
    \/ Call_rejection_binary_probs
    \/ Call_detection_task
    \/ Call_rejection_detection_task
    \/ Return

SpecTask == InitTask /\ [][NextTask]_vars

----------------------------------------------------------------------------
(* The threshold grid on its own *)

InitRejection ==
    /\ Idle
    /\ kept = NothingKept
    /\ \E u \in UncertaintyVectors : arrays = [NoArrays EXCEPT !.uncertainty = u]
    /\ rng = 0

NextRejection == Call_sample_rejection \/ Return

SpecRejection == InitRejection /\ [][NextRejection]_vars

----------------------------------------------------------------------------
(* The stratified sampler on its own *)

ClassLabels == {0, 1, 2}

InitStratified ==
    /\ Idle
    /\ kept = NothingKept
    /\ \E y \in Vectors(ClassLabels), y_prior \in Vectors(ClassLabels) \cup {<<>>} :
          arrays = [NoArrays EXCEPT !.y = y, !.y_prior = y_prior]
    /\ rng \in 0..(RngMod - 1)

NextStratified == Call_stratified_mask \/ Return

SpecStratified == InitStratified /\ [][NextStratified]_vars

----------------------------------------------------------------------------
(* The engine *)

InitEngine ==
    /\ Idle
    /\ kept = NothingKept
    /\ arrays \in EnginePopulations
    /\ rng \in 0..(RngMod - 1)

NextEngine ==
    \/ Call_performance_over_uncertainty_tol
    \/ Loop_performance_over_uncertainty_tol
    \/ Return_performance_over_uncertainty_tol
    \/ Call_rejection_performance_over_uncertainty_tol
    \/ Loop_rejection_performance_over_uncertainty_tol
    \/ Return_rejection_performance_over_uncertainty_tol

SpecEngine == InitEngine /\ [][NextEngine]_vars

----------------------------------------------------------------------------
(* The engine called twice: the caller seeds the generator, calls, keeps   *)
(* the result, seeds the generator again and repeats the call              *)

\* np.random.seed(seed) and the same call again, up to its loop
Repeat_performance_over_uncertainty_tol ==
    /\ pc = "done"
    /\ op \in {"performance_over_uncertainty_tol",
               "rejection_performance_over_uncertainty_tol"}
    /\ kept.calls = 0
    /\ kept' = [kept EXCEPT !.calls = 1, !.first = ret]
    /\ rng' = kept.seed
    /\ loc' = IF op = "performance_over_uncertainty_tol"
              THEN figures_engine_start(arrays.uncertainty, call.min_percentile)
              ELSE rejection_engine_start(arrays.uncertainty)
    /\ ret' = <<>>
    /\ pc' = "loop"
    /\ UNCHANGED <<base, op, arrays, call, stdout>>

\* the populations of the largest size
LargestPopulations == {a \in EnginePopulations : Len(a.y) = MaxEngineN}

InitTwice ==
    /\ Idle
    /\ arrays \in LargestPopulations
    /\ rng \in 0..(RngMod - 1)
    /\ kept = [seed |-> rng, calls |-> 0, first |-> <<>>]

NextTwice ==
    \/ Call_performance_over_uncertainty_tol
    \/ Loop_performance_over_uncertainty_tol
    \/ Return_performance_over_uncertainty_tol
    \/ Call_rejection_performance_over_uncertainty_tol
    \/ Loop_rejection_performance_over_uncertainty_tol
    \/ Return_rejection_performance_over_uncertainty_tol
    \/ Repeat_performance_over_uncertainty_tol

SpecTwice == InitTwice /\ [][NextTwice]_vars

----------------------------------------------------------------------------
(* One grid point evaluated on its own: after a call has returned, the     *)
(* caller seeds the generator as before the call and runs the body of the  *)
(* loop for one index, before any other index                              *)

Evaluate_alone ==
    /\ pc = "done"
    /\ op \in {"performance_over_uncertainty_tol",
               "rejection_performance_over_uncertainty_tol"}
    /\ kept.calls = 0
    /\ LET start == IF op = "performance_over_uncertainty_tol"
                    THEN figures_engine_start(arrays.uncertainty,
                                              call.min_percentile)
                    ELSE rejection_engine_start(arrays.uncertainty)
       IN  \E t \in 1..K :
              LET s == IF op = "performance_over_uncertainty_tol"
                       THEN figures_engine_step(
                                [start EXCEPT !.i = t],
                                arrays.y, arrays.scores, call.measure,
                                call.n_bootstrap, kept.seed)
                       ELSE rejection_engine_step(
                                [start EXCEPT !.i = t],
                                arrays.uncertainty, arrays.y, arrays.scores,
                                call.measure, kept.seed)
              IN  kept' = [kept EXCEPT !.calls = 1,
                                       !.first = [i |-> t, step |-> s]]
    /\ UNCHANGED <<base, pc, op, arrays, call, ret, stdout, rng, loc>>

NextAlone ==
    \/ Call_performance_over_uncertainty_tol
    \/ Loop_performance_over_uncertainty_tol
    \/ Return_performance_over_uncertainty_tol
    \/ Call_rejection_performance_over_uncertainty_tol
    \/ Loop_rejection_performance_over_uncertainty_tol
    \/ Return_rejection_performance_over_uncertainty_tol
    \/ Evaluate_alone

SpecAlone == InitTwice /\ [][NextAlone]_vars

----------------------------------------------------------------------------
(* The two variants of the engine on the same arguments: after figures.py's *)
(* variant has returned for min_percentile=10, the caller keeps the result, *)
(* seeds the generator as before and calls rejection.py's variant           *)

Call_other_variant ==
    /\ pc = "done"
    /\ op = "performance_over_uncertainty_tol"
    /\ call.min_percentile = 10 * 10
    /\ kept.calls = 0
    /\ kept' = [kept EXCEPT !.calls = 1, !.first = ret]
    /\ rng' = kept.seed
    /\ call' = [measure |-> call.measure]
    /\ loc' = rejection_engine_start(arrays.uncertainty)
    /\ ret' = <<>>
    /\ op' = "rejection_performance_over_uncertainty_tol"
    /\ pc' = "loop"
    /\ UNCHANGED <<base, arrays, stdout>>

NextVariants ==
    \/ Call_performance_over_uncertainty_tol
    \/ Loop_performance_over_uncertainty_tol
    \/ Return_performance_over_uncertainty_tol
    \/ Call_rejection_performance_over_uncertainty_tol
    \/ Loop_rejection_performance_over_uncertainty_tol
    \/ Return_rejection_performance_over_uncertainty_tol
    \/ Call_other_variant

SpecVariants == InitTwice /\ [][NextVariants]_vars

----------------------------------------------------------------------------
(* posterior_statistics *)

Call_posterior_statistics ==
    /\ pc = "idle"
    /\ LET r == posterior_statistics(arrays.probs_mc_bin)
       IN  /\ ret' = IF r.ok THEN r.value ELSE [exception |-> r.value]
           /\ pc' = IF r.ok THEN "done" ELSE "error"
    /\ op' = "posterior_statistics"
    /\ UNCHANGED <<kept, base, arrays, call, stdout, rng, loc>>

Call_rejection_posterior_statistics ==
    /\ pc = "idle"
    /\ ret' = rejection_posterior_statistics(arrays.probs_mc_bin).value
    /\ pc' = "done"
    /\ op' = "rejection_posterior_statistics"
    /\ UNCHANGED <<kept, base, arrays, call, stdout, rng, loc>>

InitStatistics ==
    /\ Idle
    /\ arrays \in DrawPopulations
    /\ rng = 0
    /\ kept = NothingKept

NextStatistics ==
    \/ Call_posterior_statistics
    \/ Call_rejection_posterior_statistics
    \/ Return

SpecStatistics == InitStatistics /\ [][NextStatistics]_vars

----------------------------------------------------------------------------
(* sample_rejection on float uncertainties *)

Call_float_sample_rejection ==
    /\ pc = "idle"
    /\ \E p \in FloatMinPercentiles :
          /\ call' = [min_percentile |-> p, maximum |-> <<>>]
          /\ ret' = float_sample_rejection(arrays.uncertainty, p, <<>>)
    /\ op' = "sample_rejection"
    /\ pc' = "done"
    /\ UNCHANGED <<kept, base, arrays, stdout, rng, loc>>

InitFloatRejection ==
    /\ Idle
    /\ kept = NothingKept
    /\ \E u \in FloatUncertaintyVectors :
          arrays = [NoArrays EXCEPT !.uncertainty = u]
    /\ rng = 0

NextFloatRejection == Call_float_sample_rejection \/ Return

SpecFloatRejection == InitFloatRejection /\ [][NextFloatRejection]_vars

----------------------------------------------------------------------------
(* Properties of sample_rejection *)

Returned(name) == pc = "done" /\ op = name

\* a / b <= c / d for fractions <<a, b>>, <<c, d>> with positive denominators
FracLeq(f, g) == f[1] * g[2] <= g[1] * f[2]

NonDecreasing(s) == \A t \in 1..(Len(s) - 1) : s[t] <= s[t + 1]

MaskSubset(a, b) == \A j \in DOMAIN a : a[j] => b[j]

\* the maximum that the call used, times PScale
UsedMaximum ==
    PScale * (IF call.maximum = <<>> THEN ArrayMax(arrays.uncertainty)
              ELSE call.maximum[1])

GridStart == percentile(arrays.uncertainty, call.min_percentile)

\* C1: sample_rejection(u, p) called without a maximum returns a
\* retained_fraction sequence that is non-decreasing in the grid index and
\* whose last element is exactly 1.0.
C1_RetainedFractionMonotoneEndsAtOne ==
    (Returned("sample_rejection") /\ call.maximum = <<>>) =>
        /\ \A t \in 1..(Len(ret.frac_retain) - 1) :
              FracLeq(ret.frac_retain[t], ret.frac_retain[t + 1])
        /\ ret.frac_retain[Len(ret.frac_retain)][1]
              = ret.frac_retain[Len(ret.frac_retain)][2]

\* a call without a maximum whose retained fraction grows along the sweep
C1_Witness ==
    /\ Returned("sample_rejection")
    /\ call.maximum = <<>>
    /\ ret.frac_retain[1][1] < ret.frac_retain[Len(ret.frac_retain)][1]
    /\ \E t \in 2..(K - 1) :
          /\ ret.frac_retain[1][1] < ret.frac_retain[t][1]
          /\ ret.frac_retain[t][1] < ret.frac_retain[K][1]

MasksGrow ==
    \A i \in DOMAIN ret.accept_indices, j \in DOMAIN ret.accept_indices :
        i < j => MaskSubset(ret.accept_indices[i], ret.accept_indices[j])

\* C2 as stated: for every pair of grid indices i < j produced by
\* sample_rejection, every sample accepted at i is accepted at j.
C2_MasksGrowEveryCall == Returned("sample_rejection") => MasksGrow

\* C2 as amended: the masks grow along the sweep whenever the maximum is the
\* default or a caller-supplied value not below
\* percentile(uncertainty, min_percentile).
C2_MasksGrowWhenMaximumNotBelowStart ==
    (Returned("sample_rejection") /\ GridStart <= UsedMaximum) => MasksGrow

\* a caller-supplied maximum above the start, with masks that really grow
C2_Witness ==
    /\ Returned("sample_rejection")
    /\ call.maximum # <<>>
    /\ GridStart < UsedMaximum
    /\ \E i \in 1..K, j \in 1..K :
          /\ i < j
          /\ CountTrue(ret.accept_indices[i]) > 0
          /\ CountTrue(ret.accept_indices[i]) < CountTrue(ret.accept_indices[j])

GridShape ==
    /\ Len(ret.uncertainty_tol) = K
    /\ ret.uncertainty_tol[1] = (K - 1) * GridStart
    /\ ret.uncertainty_tol[K] = (K - 1) * UsedMaximum

----------------------------------------------------------------------------
(* Properties of the detection task *)

\* the sum over the columns with numpy index >= first of row r
RowSumFrom(a, r, first) ==
    LET c == a.shape[2]
        f(col) == IF col > first THEN At2(a, r, col) ELSE 0
    IN  SumOver(f, 1, c)

\* v is the length-n vector of the per-row sums of the columns >= first
IsRowSums(v, a, first) ==
    /\ v.kind = "ndarray"
    /\ v.shape = <<a.shape[1]>>
    /\ \A r \in 1..a.shape[1] : v.data[r] = RowSumFrom(a, r, first)

\* v is the second column, a vector of length n
IsSecondColumn(v, a) ==
    /\ v.kind = "ndarray"
    /\ v.shape = <<a.shape[1]>>
    /\ \A r \in 1..a.shape[1] : v.data[r] = At2(a, r, 2)

ScoreMatrixCall(name) == Returned(name) /\ call.which = "probs"

\* C5 as stated: on a matrix with more than two class columns binary_probs
\* returns per row the sum of the columns with index >= threshold_level; on
\* a matrix with exactly two columns it returns the second column, whatever
\* the threshold_level.
C5_SumsAboveTwoColumns ==
    \A name \in {"binary_probs", "rejection_binary_probs"} :
        ScoreMatrixCall(name) =>
            /\ arrays.probs.shape[2] > 2 =>
                  IsRowSums(ret, arrays.probs, call.min_positive_level)
            /\ arrays.probs.shape[2] = 2 => IsSecondColumn(ret, arrays.probs)

\* C5 as amended: figures.binary_probs returns the per-row sums of the
\* columns >= threshold_level on a matrix with exactly five columns, and on
\* a matrix with exactly two columns the entries of the second column
\* whatever the threshold_level: as a vector for two rows or more, as a 0-d
\* array for a single row.  rejection.binary_probs returns the per-row
\* sums of the columns >= threshold_level for every column count, which on
\* two columns is the second column only for threshold_level = 1.
C5_SumsOnFiveColumns ==
    /\ ScoreMatrixCall("binary_probs") =>
          /\ arrays.probs.shape[2] = NClasses =>
                IsRowSums(ret, arrays.probs, call.min_positive_level)
          /\ (arrays.probs.shape[2] = 2 /\ arrays.probs.shape[1] >= 2) =>
                IsSecondColumn(ret, arrays.probs)
          /\ (arrays.probs.shape[2] = 2 /\ arrays.probs.shape[1] = 1) =>
                /\ ret.kind = "ndarray"
                /\ ret.shape = <<>>
                /\ ret.data = <<At2(arrays.probs, 1, 2)>>
    /\ ScoreMatrixCall("rejection_binary_probs") =>
          /\ IsRowSums(ret, arrays.probs, call.min_positive_level)
          /\ (arrays.probs.shape[2] = 2 /\ call.min_positive_level = 1) =>
                IsSecondColumn(ret, arrays.probs)

\* a five-column matrix summed from level 2 on, the sum differing from the
\* sums from the neighbouring levels
C5_Witness ==
    /\ ScoreMatrixCall("binary_probs")
    /\ arrays.probs.shape = <<2, NClasses>>
    /\ call.min_positive_level = 2
    /\ ret.data[1] = RowSumFrom(arrays.probs, 1, 2)
    /\ ret.data[1] # RowSumFrom(arrays.probs, 1, 1)
    /\ ret.data[1] # RowSumFrom(arrays.probs, 1, 3)

UnsupportedColumns(a) == a.shape[2] \notin {2, NClasses}

\* C6: on a score matrix with an unsupported number of class columns
\* binary_probs never returns a value, and detection_task called on such
\* input never returns a result triple.
C6_UnsupportedColumnsNeverReturn ==
    /\ ~ (Returned("binary_probs") /\ UnsupportedColumns(ScoreArgument(call.which)))
    /\ ~ (Returned("detection_task") /\ UnsupportedColumns(arrays.probs))

\* detection_task has returned a triple on a three-column matrix: None in
\* the place of the scores, and the message printed
C6_Witness ==
    /\ Returned("detection_task")
    /\ arrays.probs.shape[2] = 3
    /\ Len(ret) = 3
    /\ ret[2] = NoneValue
    /\ stdout # <<>>

LabelsBinarized(out, levels, threshold_level) ==
    /\ Len(out) = Len(levels)
    /\ \A j \in 1..Len(levels) :
          out[j] = (IF levels[j] >= threshold_level THEN 1 ELSE 0)

\* C7: binary_labels, and the first output of detection_task, is an array
\* of the length of levels whose element i is 1 if levels[i] >=
\* threshold_level and 0 otherwise; levels [0,1,2,3,4] with threshold 2
\* give [0,0,1,1,1].
C7_LabelsBinarized ==
    /\ Returned("binary_labels") =>
          /\ LabelsBinarized(ret, arrays.levels, call.min_positive_level)
          /\ (arrays.levels = <<0, 1, 2, 3, 4>> /\ call.min_positive_level = 2)
                => ret = <<0, 0, 1, 1, 1>>
    /\ (Returned("detection_task") \/ Returned("rejection_detection_task")) =>
          LabelsBinarized(ret[1], arrays.levels, call.disease_level)

\* the example of the five levels at threshold 2
C7_Witness ==
    /\ Returned("binary_labels")
    /\ arrays.levels = <<0, 1, 2, 3, 4>>
    /\ call.min_positive_level = 2
    /\ ret = <<0, 0, 1, 1, 1>>

----------------------------------------------------------------------------
(* Properties of stratified_mask *)

\* ((y[mask]) == k).sum()
SelectedOf(mask, y, k) == Cardinality({j \in DOMAIN y : mask[j] /\ y[j] = k})

\* some class of y_prior has fewer members in y than y_prior holds
InsufficientClassMembers(y, y_prior) ==
    \E k \in Range(y_prior) : CountOf(y, k) < CountOf(y_prior, k)

\* C3: stratified_mask(y_full, y_ref) returns a boolean mask over y_full
\* with exactly len(y_ref) True entries, and for every class k the number of
\* selected samples of class k equals the number of samples of class k in
\* y_ref.
C3_MaskMatchesReference ==
    Returned("stratified_mask") =>
        /\ Len(ret) = Len(arrays.y)
        /\ \A j \in DOMAIN ret : ret[j] \in BOOLEAN
        /\ CountTrue(ret) = Len(arrays.y_prior)
        /\ \A k \in Range(arrays.y) \cup Range(arrays.y_prior) :
              SelectedOf(ret, arrays.y, k) = CountOf(arrays.y_prior, k)

\* y_ref holds two samples of a class that y_full holds once: the mask
\* selects one sample
C3_Witness ==
    /\ Returned("stratified_mask")
    /\ arrays.y = <<0>>
    /\ arrays.y_prior = <<0, 0>>
    /\ ret = <<TRUE>>

\* C4: when some class present in y_reference has fewer members in y_full
\* than y_reference contains, stratified_mask fails and returns no mask.
C4_InsufficientMembersFail ==
    ~ (/\ Returned("stratified_mask")
       /\ InsufficientClassMembers(arrays.y, arrays.y_prior))

\* a mask returned although y_reference holds two samples of a class that
\* y_full holds once
C4_Witness ==
    /\ Returned("stratified_mask")
    /\ arrays.y = <<0, 1>>
    /\ arrays.y_prior = <<1, 1>>
    /\ InsufficientClassMembers(arrays.y, arrays.y_prior)
    /\ ret = <<FALSE, TRUE>>

----------------------------------------------------------------------------
(* Properties of performance_over_uncertainty_tol *)

FiguresEngine == op = "performance_over_uncertainty_tol"

RejectionEngine == op = "rejection_performance_over_uncertainty_tol"

EngineReturned == pc = "done" /\ (FiguresEngine \/ RejectionEngine)

\* the samples with uncertainty <= grid value t of the returned grid
SamplesWithin(t) ==
    [j \in 1..Len(arrays.uncertainty) |->
        arrays.uncertainty[j] * GScale <= ret.uncertainty_tol[t]]

\* the value of the primary curve at grid index t
PrimaryValue(t) == IF FiguresEngine THEN ret.p[t].value ELSE ret.p[t]

\* two fractions are the same number (nan only with nan)
SameNumber(f, g) ==
    IF f[2] = 0 \/ g[2] = 0 THEN f = g ELSE f[1] * g[2] = g[1] * f[2]

\* C9: performance_over_uncertainty_tol returns a grid, a retained_fraction
\* sequence and curves that all have exactly 100 entries; at every grid
\* index i the primary point value is the measure applied to exactly the
\* (label, score) pairs of the samples with uncertainty <= grid[i], and
\* retained_fraction[i] is the number of those samples divided by n.
C9_CurvesOverAcceptedSamples ==
    EngineReturned =>
        /\ Len(ret.uncertainty_tol) = K
        /\ Len(ret.frac_retain) = K
        /\ Len(ret.p) = K
        /\ Len(ret.p_rand) = K
        /\ RejectionEngine => Len(ret.p_strat) = K
        /\ \A t \in 1..K :
              LET A == SamplesWithin(t)
                  m == Measure(call.measure, BoolIndex(arrays.y, A),
                               BoolIndex(arrays.scores, A))
              IN  /\ m.ok
                  /\ SameNumber(PrimaryValue(t), m.value)
                  /\ SameNumber(ret.frac_retain[t],
                                <<CountTrue(A), Len(arrays.uncertainty)>>)

\* a returned sweep of figures.py whose first mask holds a part of the
\* samples and whose primary value differs between the first and the last
\* grid index
C9_Witness ==
    /\ EngineReturned
    /\ FiguresEngine
    /\ CountTrue(SamplesWithin(1)) > 0
    /\ CountTrue(SamplesWithin(1)) < Len(arrays.uncertainty)
    /\ ~ SameNumber(PrimaryValue(1), PrimaryValue(K))
    /\ ~ SameNumber(ret.frac_retain[1], ret.frac_retain[K])

\* an iteration of the engine's loop has drawn its random selection
SelectionDrawn ==
    /\ pc \in {"loop", "done", "error"}
    /\ FiguresEngine \/ RejectionEngine
    /\ loc.rand_sel # <<>>

\* C10: at every grid index the random-baseline selection is a boolean mask
\* over the full population with exactly as many selected samples as the
\* acceptance mask A at that index, for every outcome of the permutation.
C10_RandomSelectionSameCount ==
    SelectionDrawn =>
        /\ Len(loc.rand_sel) = Len(arrays.uncertainty)
        /\ \A j \in 1..Len(loc.rand_sel) : loc.rand_sel[j] \in BOOLEAN
        /\ CountTrue(loc.rand_sel) = CountTrue(loc.accept)

\* rejection.py's loop with a selection that differs from the acceptance
\* mask it was permuted from
C10_Witness ==
    /\ SelectionDrawn
    /\ RejectionEngine
    /\ CountTrue(loc.accept) > 0
    /\ CountTrue(loc.accept) < Len(arrays.uncertainty)
    /\ loc.rand_sel # loc.accept

\* an iteration of rejection.py's loop has drawn its stratified selection
StratifiedDrawn ==
    /\ pc \in {"loop", "done", "error"}
    /\ RejectionEngine
    /\ loc.strat_sel # <<>>

\* C11: at every grid index the stratified selection, drawn with y[A] as
\* the reference and shuffle=True, has as many samples as the accepted
\* subset A and as many samples of each class as y[A], for every outcome of
\* the shuffle; so has the random selection, and the three curves belong to
\* the same retained fraction.
C11_StratifiedSelectionMatchesAccepted ==
    StratifiedDrawn =>
        /\ Len(loc.strat_sel) = Len(arrays.y)
        /\ \A j \in 1..Len(loc.strat_sel) : loc.strat_sel[j] \in BOOLEAN
        /\ CountTrue(loc.strat_sel) = CountTrue(loc.accept)
        /\ CountTrue(loc.rand_sel) = CountTrue(loc.accept)
        /\ \A k \in Range(arrays.y) :
              SelectedOf(loc.strat_sel, arrays.y, k)
                  = SelectedOf(loc.accept, arrays.y, k)
        /\ (pc # "error" /\ loc.i > 1) =>
              SameNumber(loc.frac_retain[loc.i - 1],
                         <<CountTrue(loc.strat_sel), Len(arrays.y)>>)

\* the shuffle has selected another sample of the class than the accepted
\* one
C11_Witness ==
    /\ StratifiedDrawn
    /\ CountTrue(loc.accept) > 0
    /\ loc.strat_sel # loc.accept
    /\ loc.i > 1

----------------------------------------------------------------------------
(* Properties of the intervals *)

FiguresReturned == pc = "done" /\ FiguresEngine

\* the curves of figures.py: the primary one and the random baseline
Curves == <<ret.p, ret.p_rand>>

\* low <= value <= high at a point; the three are numbers, not nan
PointWithinBounds(pt) ==
    /\ pt.low[2] > 0 /\ pt.value[2] > 0 /\ pt.high[2] > 0
    /\ FracLeq(pt.low, pt.value)
    /\ FracLeq(pt.value, pt.high)

\* C12 as stated: at every grid index of every returned curve, CI-low <=
\* point estimate <= CI-high.
C12_PointWithinBoundsEverywhere ==
    FiguresReturned =>
        \A c \in 1..2 : \A t \in 1..K : PointWithinBounds(Curves[c][t])

\* the accepted samples at grid index t all carry the same label and score
AcceptedAlike(t) ==
    LET A == SamplesWithin(t)
    IN  \A i \in 1..Len(A), j \in 1..Len(A) :
            (A[i] /\ A[j]) => /\ arrays.y[i] = arrays.y[j]
                              /\ arrays.scores[i] = arrays.scores[j]

\* C12 as amended: at every grid index of every returned curve the bounds
\* are ordered, CI-low <= CI-high, and lie in [0, 1]; where every accepted
\* sample carries the same label and score the primary curve has CI-low =
\* point estimate = CI-high.  Otherwise the point estimate may lie outside
\* the bounds.
C12_BoundsOrdered ==
    FiguresReturned =>
        /\ \A c \in 1..2 : \A t \in 1..K :
              LET pt == Curves[c][t]
              IN  /\ pt.low[2] > 0 /\ pt.high[2] > 0
                  /\ FracLeq(pt.low, pt.high)
                  /\ FracLeq(<<0, 1>>, pt.low)
                  /\ FracLeq(pt.high, <<1, 1>>)
        /\ \A t \in 1..K :
              AcceptedAlike(t) =>
                  /\ SameNumber(ret.p[t].low, ret.p[t].value)
                  /\ SameNumber(ret.p[t].high, ret.p[t].value)

\* a returned primary curve with a point whose bounds differ, and with the
\* point estimate between them
C12_Witness ==
    /\ FiguresReturned
    /\ \E t \in 1..K :
          /\ ~ SameNumber(ret.p[t].low, ret.p[t].high)
          /\ PointWithinBounds(ret.p[t])

----------------------------------------------------------------------------
(* Properties of a failing measure *)

InLoop == pc = "loop" /\ (FiguresEngine \/ RejectionEngine) /\ loc.i <= K

\* the labels of the samples with uncertainty <= grid value t of the sweep
\* in progress
AcceptedLabelsAt(t) ==
    {arrays.y[j] : j \in {x \in 1..Len(arrays.uncertainty) :
                              arrays.uncertainty[x] * GScale
                                  <= loc.uncertainty_tol[t]}}

\* the rank-based measure on an accepted subset of a single class
PrimaryFailsAt(t) ==
    /\ call.measure = "roc_auc_score"
    /\ Cardinality(AcceptedLabelsAt(t)) < 2

\* the curves of the sweep in progress
LocalCurves ==
    IF FiguresEngine THEN <<loc.p, loc.p_rand>>
    ELSE <<loc.p, loc.p_rand, loc.p_strat, loc.frac_retain>>

ZeroEntry == IF FiguresEngine THEN ZeroPoint ELSE <<0, 1>>

\* C13: if the measure fails at a grid index, performance_over_uncertainty_tol
\* aborts with that error: the step leaves the loop with the exception in
\* the place of a result, writes no value for the failing point and
\* evaluates no later grid index; an aborted call holds no curves and takes
\* no further step.
C13_AbortsOnFailure ==
    /\ [][(InLoop /\ PrimaryFailsAt(loc.i)) =>
              /\ pc' = "error"
              /\ ret' = [exception |-> "ValueError"]
              /\ loc'.i = loc.i
              /\ loc'.p = loc.p
              /\ loc'.p_rand = loc.p_rand]_vars
    /\ [][pc = "error" => pc' = "error" /\ ret' = ret /\ loc' = loc]_vars
    /\ [](pc = "error" =>
              /\ ret = [exception |-> "ValueError"]
              /\ \A c \in 1..Len(LocalCurves) : \A t \in (loc.i + 1)..K :
                    LocalCurves[c][t] = ZeroEntry)

\* a sweep aborted at its first grid index, whose accepted subset holds a
\* single class
C13_Witness ==
    /\ pc = "error"
    /\ FiguresEngine \/ RejectionEngine
    /\ PrimaryFailsAt(loc.i)
    /\ ret = [exception |-> "ValueError"]
    /\ loc.p[loc.i] = ZeroEntry

----------------------------------------------------------------------------
(* Properties of repeated calls *)

\* the repeated call has returned
RepeatReturned == EngineReturned /\ kept.calls = 1

----------------------------------------------------------------------------
(* Properties of posterior_statistics *)

StatisticsReturned ==
    pc = "done" /\ op \in {"posterior_statistics", "rejection_posterior_statistics"}

\* row r of the draws is constant
ConstantRow(r) ==
    \A j \in 1..arrays.probs_mc_bin.shape[2] :
        At2(arrays.probs_mc_bin, r, j) = At2(arrays.probs_mc_bin, r, 1)

\* the part of C15 that every call keeps: the assertion never fails, both
\* vectors have length n, every standard deviation is >= 0 and every mean
\* lies in [0, 1]
StatisticsWithinRange ==
    /\ op = "posterior_statistics" => pc # "error"
    /\ StatisticsReturned =>
          /\ Len(ret[1]) = arrays.probs_mc_bin.shape[1]
          /\ Len(ret[2]) = arrays.probs_mc_bin.shape[1]
          /\ \A r \in DOMAIN ret[1] :
                /\ float_leq(FloatZero, ret[2][r])
                /\ float_leq(FloatZero, ret[1][r])
                /\ float_leq(ret[1][r], FloatOne)

\* C15: for every MC-draw matrix with draws in [0,1], posterior_statistics
\* returns two vectors of length n with standard deviation >= 0 and mean in
\* [0,1] in every row (the assertion never fails), and in every row whose
\* draws all equal a constant c the standard deviation is exactly 0 and the
\* mean exactly c.
C15_StatisticsOfDraws ==
    /\ StatisticsWithinRange
    /\ StatisticsReturned =>
          \A r \in DOMAIN ret[1] :
              ConstantRow(r) =>
                  /\ ret[2][r] = FloatZero
                  /\ ret[1][r] = At2(arrays.probs_mc_bin, r, 1)

\* a call returned the statistics of a matrix with a constant row of more
\* than one draw that is not 0
C15_Witness ==
    /\ StatisticsReturned
    /\ arrays.probs_mc_bin.shape[2] > 1
    /\ \E r \in DOMAIN ret[1] :
          ConstantRow(r) /\ At2(arrays.probs_mc_bin, r, 1) # FloatZero

----------------------------------------------------------------------------
(* Properties of stratified_mask without shuffling *)

\* the number of samples of the class of sample j among the samples 1..j
PlaceInClass(y, j) == Cardinality({i \in 1..j : y[i] = y[j]})

\* C16: with shuffle=False, stratified_mask selects for each class k of
\* y_reference exactly the first n_k indices, in increasing index order, of
\* the samples of class k in y_full, where n_k is the count of k in
\* y_reference; the mask is a function of the two arguments alone, whatever
\* the state of the generator.
C16_FirstOfEachClass ==
    (Returned("stratified_mask") /\ ~ call.shuffle) =>
        /\ \A j \in DOMAIN arrays.y :
              ret[j] <=> PlaceInClass(arrays.y, j) <= CountOf(arrays.y_prior, arrays.y[j])
        /\ \A r \in 0..(RngMod - 1) :
              ret = stratified_mask(arrays.y, arrays.y_prior, FALSE, r).mask

\* a mask returned without shuffling that leaves out a later sample of a
\* class it selects from
C16_Witness ==
    /\ Returned("stratified_mask")
    /\ ~ call.shuffle
    /\ \E i, j \in DOMAIN arrays.y :
          /\ i < j
          /\ arrays.y[i] = arrays.y[j]
          /\ ret[i]
          /\ ~ ret[j]

----------------------------------------------------------------------------
(* Properties of a grid point evaluated on its own *)

\* a grid point was evaluated on its own after the call returned
EvaluatedAlone == EngineReturned /\ kept.calls = 1

\* the primary value of the grid point evaluated on its own is the one of
\* the call
SamePrimaryValue ==
    IF FiguresEngine
    THEN SameNumber(kept.first.step.loc.p[kept.first.i].value, ret.p[kept.first.i].value)
    ELSE SameNumber(kept.first.step.loc.p[kept.first.i], ret.p[kept.first.i])

\* the baselines and the bounds of the grid point evaluated on its own are
\* the ones of the call
SameBaselines ==
    IF FiguresEngine
    THEN /\ kept.first.step.loc.p[kept.first.i] = ret.p[kept.first.i]
         /\ kept.first.step.loc.p_rand[kept.first.i] = ret.p_rand[kept.first.i]
    ELSE /\ kept.first.step.loc.p_rand[kept.first.i] = ret.p_rand[kept.first.i]
         /\ kept.first.step.loc.p_strat[kept.first.i] = ret.p_strat[kept.first.i]

\* C17 as stated: the value computed at a grid index (primary value and
\* interval, random and stratified baseline) does not depend on whether or
\* in which order the other grid indices are evaluated from the same
\* initial state of the generator.
C17_GridPointIndependentOfOrder ==
    EvaluatedAlone =>
        /\ kept.first.step.ok
        /\ SamePrimaryValue
        /\ SameBaselines

\* C17 amended: the threshold, the accepted samples and the primary point
\* value at a grid index do not depend on whether the indices before it are
\* evaluated; the baselines and the bounds are drawn from the generator
\* that the grid points share.
C17_PrimaryValueIndependentOfOrder ==
    EvaluatedAlone =>
        /\ kept.first.step.loc.uncertainty_tol = ret.uncertainty_tol
        /\ SamplesWithin(kept.first.i) = kept.first.step.loc.accept
        /\ (kept.first.step.ok \/ RejectionEngine) => SamePrimaryValue

\* a grid point after the first evaluated on its own: its primary value is
\* the one of the call, its random baseline is not
C17_Witness ==
    /\ EvaluatedAlone
    /\ kept.first.i > 1
    /\ kept.first.step.ok
    /\ SamePrimaryValue
    /\ kept.first.step.loc.p_rand[kept.first.i] # ret.p_rand[kept.first.i]

----------------------------------------------------------------------------
(* Properties of the caller's arrays *)

TaskReturned ==
    pc = "done" /\ op \in {"binary_labels", "binary_probs", "rejection_binary_probs",
                           "detection_task", "rejection_detection_task"}

\* the score arrays of two columns that a call of figures.py was given
TwoColumnArguments ==
    IF op = "binary_probs" /\ ScoreArgument(call.which).shape[2] = 2
    THEN {call.which}
    ELSE IF op = "detection_task" /\ arrays.probs.shape[2] = 2
    THEN {"probs", "probs_mc"}
    ELSE {}

----------------------------------------------------------------------------
(* Properties of the two variants *)

\* rejection.py's variant has returned after figures.py's variant did
BothReturned == pc = "done" /\ RejectionEngine /\ kept.calls = 1

\* C19: for every uncertainty vector, labels, scores and measure,
\* figures.py's performance_over_uncertainty_tol called with
\* min_percentile=10 produces the same threshold grid, the same
\* retained_fraction sequence and the same primary point values as
\* rejection.py's performance_over_uncertainty_tol.
C19_VariantsAgree ==
    BothReturned =>
        /\ Len(ret.uncertainty_tol) = Len(kept.first.uncertainty_tol)
        /\ \A t \in 1..K :
              /\ ret.uncertainty_tol[t] = kept.first.uncertainty_tol[t]
              /\ SameNumber(ret.frac_retain[t], kept.first.frac_retain[t])
              /\ SameNumber(ret.p[t], kept.first.p[t].value)

\* both variants returned for uncertainties of two levels, with a grid
\* that starts above the lower level and a primary curve that is not
\* constant
C19_Witness ==
    /\ BothReturned
    /\ ret.uncertainty_tol[1] > 0
    /\ ret.uncertainty_tol[1] < ret.uncertainty_tol[K]
    /\ ~ SameNumber(ret.p[1], ret.p[K])

----------------------------------------------------------------------------
(* Properties of sample_rejection on float uncertainties *)

\* a mask is empty only where the threshold lies below every uncertainty
LowestAcceptedOnceReached ==
    Returned("sample_rejection") =>
        \A t \in 1..K :
            (\E j \in DOMAIN arrays.uncertainty :
                float_leq(arrays.uncertainty[j], ret.uncertainty_tol[t]))
                => CountTrue(ret.accept_indices[t]) > 0

\* C20: for every non-empty uncertainty vector, every min_percentile in
\* [0,100] and the default maximum, every acceptance mask produced by
\* sample_rejection accepts at least one sample (retained_fraction > 0 at
\* every grid index), so that no measure is evaluated on an empty accepted
\* subset.
C20_EveryMaskAcceptsASample ==
    (Returned("sample_rejection") /\ call.maximum = <<>>) =>
        \A t \in 1..K :
            /\ CountTrue(ret.accept_indices[t]) > 0
            /\ ret.frac_retain[t][1] > 0

\* a call with the default maximum whose grid starts below the lowest
\* uncertainty: the first mask accepts no sample
C20_Witness ==
    /\ Returned("sample_rejection")
    /\ call.maximum = <<>>
    /\ \A j \in DOMAIN arrays.uncertainty :
          float_lt(ret.uncertainty_tol[1], arrays.uncertainty[j])
    /\ CountTrue(ret.accept_indices[1]) = 0

====
